---- MODULE Spec2Model ----
(***************************************************************************)
(* QdrantVectorDatabase (packages/core/src/vectordb/qdrant-vectordb.ts):   *)
(* the adapter's lazily set `initialized` flag, its public operations as   *)
(* steps between awaits, the backend they talk to, and the reciprocal rank *)
(* fusion of hybridSearch.                                                 *)
(*                                                                         *)
(* Numbers: a fused score is the JavaScript double 1/(k+r1) + 1/(k+r2).    *)
(* It is modelled as an exact fraction [num, den]; for the ranks and k of  *)
(* this model two different fractions differ by far more than a double's   *)
(* rounding error, so comparisons agree with the ones the code makes.      *)
(***************************************************************************)
EXTENDS Integers, Sequences, FiniteSets, TLC

(* ------------------------------ bounds -------------------------------- *)

\* the largest limit / topK a caller passes
MaxLimit == 2
\* the longest batch of documents (insert) or ids (delete) a caller passes
MaxDocs == 2
\* the longest text handed to the tokenizer
MaxTextLen == 6

(* ------------------------- program constants -------------------------- *)

\* `options?.limit || 10`, `options?.topK || 10`
DefaultLimit == 10
\* `Math.abs(hash) % 65536`: the number of hash buckets
Buckets == 65536
\* `hash << 5`
ShiftBits == 5
\* the width of one half of the 32-bit integer of `hash & hash`
HalfBits == 16
\* `options?.rerank?.params?.k || 60`
DefaultK == 60
\* `limit || 100` of query
DefaultScrollLimit == 100
\* `limit * 2`: hybridSearch asks each leg for twice the limit
FusionOverfetch == 2

\* an optional number the caller left out (JavaScript undefined)
Undefined == 0 - 1

(* ------------------------------ universe ------------------------------ *)

\* the callers sharing the adapter instance, and the one of a sequential run
Callers == {"c1", "c2"}
SeqCallers == {"c1"}

\* collection names
CollNames == {"code"}

\* caller-supplied document ids (doc.id is any string, the empty one included)
IDs == {"", "a", "b"}

\* the public operations of the class
Ops ==
  {"createCollection", "createHybridCollection", "dropCollection",
   "hasCollection", "listCollections", "insert", "insertHybrid", "search",
   "hybridSearch", "delete", "query", "checkCollectionLimit"}

\* options.limit / options.topK / query's limit: left out, or 0..MaxLimit
Limits == {Undefined} \cup (0..MaxLimit)

\* options.rerank.params.k: left out, or a supplied constant
KValues == {Undefined, 0, 1, 2}

\* batches of document ids
DocSeqs == UNION {[1..n -> IDs] : n \in 0..MaxDocs}

\* the searchRequests lists of hybridSearch: each request is
\* {anns_field, data}; the data of a sparse request is the query text
DenseReq == [anns_field |-> "vector", data |-> "[0.15,...]"]
SparseReq == [anns_field |-> "sparse_vector", data |-> "function definition"]
EmptySparseReq == [anns_field |-> "sparse_vector", data |-> ""]
OtherReq == [anns_field |-> "other", data |-> ""]
RequestLists ==
  {<<>>, <<DenseReq>>, <<SparseReq>>, <<OtherReq>>, <<DenseReq, SparseReq>>,
   <<SparseReq, DenseReq>>, <<DenseReq, EmptySparseReq>>}

(* ------------------------------ helpers ------------------------------- *)

Min(a, b) == IF a < b THEN a ELSE b

\* JavaScript `v || d` on an optional number: undefined and 0 are falsy
OrDefault(v, d) == IF v = Undefined \/ v = 0 THEN d ELSE v

\* fractions with positive denominators
Frac(n, d) == [num |-> n, den |-> d]
FracAdd(a, b) == Frac(a.num * b.den + b.num * a.den, a.den * b.den)
FracEq(a, b) == a.num * b.den = b.num * a.den
FracLess(a, b) == a.num * b.den < b.num * a.den

\* stringToUUID: the md5 of the id laid out as a UUID; the table holds the
\* values the code computes for the ids of this model
stringToUUID(id) ==
  CASE id = "" -> "d41d8cd9-8f00-4204-e980-0998ecf8427e"
    [] id = "a" -> "0cc175b9-c0f1-46a8-31c3-99e269772661"
    [] id = "b" -> "92eb5ffe-e6ae-4fec-3ad7-1c777531578f"

(* ------------------------------- state -------------------------------- *)

VARIABLES
  initialized,  \* this.initialized
  backend,      \* the collections of the Qdrant server and their points
  call,         \* per caller: the public operation in progress
  tok           \* the tokenizer: a text and the sparse vector built from it

vars == <<initialized, backend, call, tok>>

\* a collection that does not exist
NoCollection == [exists |-> FALSE, hybrid |-> FALSE, points |-> {}]

\* a caller with no operation in progress. The fields of a call:
\*   pc       "idle", "probe" (awaiting the probe of initialize), "body"
\*            (past initialize), "sparse" (hybridSearch awaiting its sparse
\*            search), "done" (returned or thrown)
\*   op, coll, docs, reqs, limit, k   the operation and its arguments
\*   status   "ok", or the prefix of the thrown error's message
\*   cause    the failure the thrown error wraps
\*   ret      the list returned by search, hybridSearch and query
\*   value    the value returned by hasCollection, listCollections and
\*            checkCollectionLimit
\*   wasInit, log, dense, sparse   history kept to state the properties: the
\*            flag when the operation was called, the requests it issued,
\*            and the lists the backend returned to it
Idle ==
  [pc |-> "idle", op |-> "none", coll |-> "", docs |-> <<>>, reqs |-> <<>>,
   limit |-> Undefined, k |-> Undefined, wasInit |-> FALSE, log |-> <<>>,
   dense |-> <<>>, sparse |-> <<>>, status |-> "none", cause |-> "",
   ret |-> <<>>, value |-> {}]

\* no text handed to the tokenizer
NoVector == [indices |-> <<>>, values |-> <<>>]
NoText == [pc |-> "none", text |-> <<>>, vector |-> NoVector]

Init ==
  /\ initialized = FALSE
  /\ backend = [n \in CollNames |-> NoCollection]
  /\ call = [c \in Callers |-> Idle]
  /\ tok = NoText

(* ------------------------------ backend ------------------------------- *)
(* The Qdrant server behind this.client. Every request may fail for a      *)
(* reason of its own (network, server): outcome "error". A request on a    *)
(* collection that does not exist fails with "not found", a create of one  *)
(* that exists with "already exists".                                      *)

\* client.getCollections()
GetCollectionsOutcomes == {"ok", "error"}

\* client.createCollection(name, ...)
CreateOutcomes(coll) ==
  IF coll.exists THEN {"already exists", "error"} ELSE {"ok", "error"}

\* client.deleteCollection(name)
DeleteCollectionOutcomes(coll) ==
  IF coll.exists THEN {"ok", "error"} ELSE {"not found", "error"}

\* client.upsert / client.search / client.delete / client.scroll on a
\* collection; a request that names the sparse field needs a hybrid one
PointsOutcomes(coll, needsSparse) ==
  IF ~coll.exists THEN {"not found", "error"}
  ELSE IF needsSparse /\ ~coll.hybrid THEN {"error"}
  ELSE {"ok", "error"}

\* the similarity the server reports for the hit at a rank (it decreases
\* with the rank; its value is the server's business)
NativeScore(rank) == Frac(100 - rank, 100)

\* the ranked lists a search may answer: at most `limit` distinct points
Rankings(points, limit) ==
  {s \in UNION {[1..m -> points] : m \in 0..Min(limit, Cardinality(points))} :
     \A i, j \in DOMAIN s : i # j => s[i] # s[j]}

\* a search response: every hit with its id, payload and score
Hits(points, limit) ==
  {[i \in DOMAIN s |->
      [id |-> s[i].id, originalId |-> s[i].originalId, score |-> NativeScore(i)]] :
     s \in Rankings(points, limit)}

\* upsert: a point with the id of a stored one replaces it
Upserted(points, new) ==
  {p \in points : \A q \in new : q.id # p.id} \cup new

(* ------------------------ the adapter: helpers ------------------------ *)

\* a backend request as an operation's log keeps it: what was asked, how
\* it was answered, and the value of this.initialized when it was issued
Request(kind, outcome) ==
  [kind |-> kind, outcome |-> outcome, init |-> initialized]

\* an operation that does not await initialize: no probe is ever sent
NeedsProbeNever(flag) == FALSE

\* initialize without its guard: the probe is sent on every call
NeedsProbeAlways(flag) == TRUE

\* `if (this.initialized) return;` of initialize: whether the probe is sent
NeedsProbe(flag) == ~flag

\* `return` of a public operation
Returned(r, log, ret, value) ==
  [r EXCEPT !.pc = "done", !.status = "ok", !.log = log, !.ret = ret,
            !.value = value]

\* `throw new Error(...)` of a public operation: the message's prefix and
\* the failure it wraps
Thrown(r, log, message, cause) ==
  [r EXCEPT !.pc = "done", !.status = message, !.cause = cause, !.log = log]

\* the payload's `originalId || point.id` of search and hybridSearch
DocumentId(point) ==
  IF point.originalId # "" THEN point.originalId ELSE point.id

\* the points insert and insertHybrid build from the documents
PointsOf(docs, withSparse) ==
  {[id |-> stringToUUID(docs[i]), originalId |-> docs[i], sparse |-> withSparse] :
     i \in DOMAIN docs}

\* searchRequests.find((r) => r.anns_field === field): the first match,
\* or <<>> for undefined
Find(reqs, field) ==
  LET hits == {i \in DOMAIN reqs : reqs[i].anns_field = field}
  IN IF hits = {} THEN <<>>
     ELSE <<reqs[CHOOSE i \in hits : \A j \in hits : i <= j]>>

\* a slip in the check: any request at all passes for the dense one
HasDenseAnyRequest(reqs) == reqs # <<>>

\* `if (!denseRequest)`
HasDense(reqs) == Find(reqs, "vector") # <<>>

\* `sparseRequest?.data`, "" when there is no sparse request (both falsy)
SparseText(reqs) ==
  IF Find(reqs, "sparse_vector") = <<>> THEN ""
  ELSE Find(reqs, "sparse_vector")[1].data

(* ------------------------ reciprocal rank fusion ---------------------- *)

\* allResults.get(id): the position of the entry of a point id, 0 if none
EntryOf(all, id) ==
  IF \E i \in DOMAIN all : all[i].point.id = id
  THEN CHOOSE i \in DOMAIN all : all[i].point.id = id
  ELSE 0

\* allResults.set(id, entry): the entry of a known id is replaced where it
\* stands, a new id is added at the end (a Map keeps insertion order)
MapSet(all, id, entry) ==
  IF EntryOf(all, id) # 0
  THEN [j \in 1..Len(all) |-> IF j = EntryOf(all, id) THEN entry ELSE all[j]]
  ELSE Append(all, entry)

\* denseResults.forEach from position i on: every hit is set with its rank
RECURSIVE AddDenseFrom(_, _, _)
AddDenseFrom(all, denseResults, i) ==
  IF i > Len(denseResults) THEN all
  ELSE AddDenseFrom(
         MapSet(all, denseResults[i].id,
                [point |-> denseResults[i], denseRank |-> i,
                 sparseRank |-> Undefined]),
         denseResults, i + 1)

\* allResults after the dense results
AddDense(denseResults) == AddDenseFrom(<<>>, denseResults, 1)

\* sparseResults.forEach from position i on: a known point gets its sparse
\* rank, a new one is set with it
RECURSIVE AddSparse(_, _, _)
AddSparse(all, sparseResults, i) ==
  IF i > Len(sparseResults) THEN all
  ELSE LET e == EntryOf(all, sparseResults[i].id)
       IN AddSparse(
            IF e # 0
            THEN MapSet(all, sparseResults[i].id,
                        [point |-> all[e].point, denseRank |-> all[e].denseRank,
                         sparseRank |-> i])
            ELSE MapSet(all, sparseResults[i].id,
                        [point |-> sparseResults[i], denseRank |-> Undefined,
                         sparseRank |-> i]),
            sparseResults, i + 1)

\* the contribution of one list: 1 / (k + rank), nothing without a rank
Contribution(k, rank) ==
  IF rank # Undefined THEN Frac(1, k + rank) ELSE Frac(0, 1)

\* a slip in the scoring: the sparse contribution replaces the dense one
\* (`=` for `+=`)
RrfScoreOverwritten(k, item) ==
  IF item.sparseRank # Undefined THEN Contribution(k, item.sparseRank)
  ELSE Contribution(k, item.denseRank)

\* rrfScore of an entry
RrfScore(k, item) ==
  FracAdd(Contribution(k, item.denseRank), Contribution(k, item.sparseRank))

\* scoredResults
Scored(all, k) ==
  [i \in DOMAIN all |-> [point |-> all[i].point, rrfScore |-> RrfScore(k, all[i])]]

\* the comparator (a, b) => b.rrfScore - a.rrfScore is positive: b goes first
GoesFirst(b, a) == FracLess(a.rrfScore, b.rrfScore)

\* Array.prototype.sort with that comparator: stable, so an entry is put
\* after every entry that does not have to come after it
RECURSIVE InsertSorted(_, _)
InsertSorted(sorted, x) ==
  IF sorted = <<>> THEN <<x>>
  ELSE IF GoesFirst(x, Head(sorted)) THEN <<x>> \o sorted
  ELSE <<Head(sorted)>> \o InsertSorted(Tail(sorted), x)

RECURSIVE Sort(_)
Sort(s) ==
  IF s = <<>> THEN <<>>
  ELSE InsertSorted(Sort(SubSeq(s, 1, Len(s) - 1)), s[Len(s)])

\* slice(0, limit) for a limit >= 0
Slice(s, limit) == SubSeq(s, 1, Min(limit, Len(s)))

\* one HybridSearchResult: the document id, the score, and (to tell which
\* stored point it came from) the id of the backend point
ToResult(point, score) ==
  [id |-> DocumentId(point), score |-> score, point |-> point.id]

\* hybridSearch from allResults to the returned list
Fuse(all, limit, k) ==
  LET top == Slice(Sort(Scored(all, k)), limit)
  IN [i \in DOMAIN top |-> ToResult(top[i].point, top[i].rrfScore)]

\* `options?.limit || 10` (hybridSearch) and `options?.topK || 10` (search)
EffectiveLimit(limit) == OrDefault(limit, DefaultLimit)

\* `options?.rerank?.params?.k || 60`
EffectiveK(k) == OrDefault(k, DefaultK)

(* ----------------------------- operations ----------------------------- *)
(* A public operation runs from one await to the next in one step. A       *)
(* request to the backend, the backend's handling of it and the code up to *)
(* the next await are one step: the backend handles a request atomically.  *)

\* the arguments an operation takes (the others stay at their defaults)
Args(op) ==
  [coll : IF op \in {"listCollections", "checkCollectionLimit"}
          THEN {""} ELSE CollNames,
   docs : IF op \in {"insert", "insertHybrid", "delete"}
          THEN DocSeqs ELSE {<<>>},
   reqs : IF op = "hybridSearch" THEN RequestLists ELSE {<<>>},
   limit : IF op \in {"search", "hybridSearch", "query"}
           THEN Limits ELSE {Undefined},
   k : IF op = "hybridSearch" THEN KValues ELSE {Undefined}]

\* a caller calls a public operation: it runs into `await this.initialize()`,
\* which returns at once when the flag is set and else sends the probe
Invoke(c) ==
  /\ call[c].pc = "idle"
  /\ \E op \in Ops : \E a \in Args(op) :
       call' = [call EXCEPT ![c] =
         [Idle EXCEPT !.op = op, !.coll = a.coll, !.docs = a.docs,
                      !.reqs = a.reqs, !.limit = a.limit, !.k = a.k,
                      !.wasInit = initialized,
                      !.pc = IF NeedsProbe(initialized) THEN "probe" ELSE "body",
                      !.log = IF NeedsProbe(initialized)
                              THEN <<Request("probe", "pending")>> ELSE <<>>]]
  /\ UNCHANGED <<initialized, backend, tok>>

\* the flag set before the probe is awaited, whatever its answer
FlagSetBeforeProbe(flag, out) == TRUE

\* the flag written from the answer of every probe, a failing one included
FlagFollowsProbe(flag, out) == out = "ok"

\* `this.initialized = true` after the awaited probe: reached only when
\* the probe succeeded
FlagAfterProbe(flag, out) == IF out = "ok" THEN TRUE ELSE flag

\* initialize after `await this.client.getCollections()`: the flag is set
\* on success, the failure is rethrown as the operation's failure
initialize(c) ==
  /\ call[c].pc = "probe"
  /\ \E out \in GetCollectionsOutcomes :
       LET log == <<[call[c].log[1] EXCEPT !.outcome = out]>>
       IN /\ initialized' = FlagAfterProbe(initialized, out)
          /\ call' = [call EXCEPT ![c] =
               IF out = "ok"
               THEN [@ EXCEPT !.pc = "body", !.log = log]
               ELSE Thrown(@, log, "Failed to initialize Qdrant client", out)]
  /\ UNCHANGED <<backend, tok>>

\* the caller takes the result (or the error) of its finished operation
Return(c) ==
  /\ call[c].pc = "done"
  /\ call' = [call EXCEPT ![c] = Idle]
  /\ UNCHANGED <<initialized, backend, tok>>

\* whether the operation `op` of caller c is past initialize
InBody(c, op) == call[c].pc = "body" /\ call[c].op = op

\* a catch that rethrows every failure of the create request
NothingAbsorbed(out) == FALSE

\* the catch of createCollection and createHybridCollection
AbsorbedOnCreate(out) == out = "already exists"

\* a catch of dropCollection that looks for the wrong message
AbsorbedOnDropWrongText(out) == out = "does not exist"

\* the catch of dropCollection
AbsorbedOnDrop(out) == out = "not found"

\* the body of createCollection and createHybridCollection
Create(c, hybrid, message) ==
  LET r == call[c] IN
  \E out \in CreateOutcomes(backend[r.coll]) :
    LET log == Append(r.log, Request("createCollection", out)) IN
    /\ backend' = IF out = "ok"
                  THEN [backend EXCEPT ![r.coll] =
                          [exists |-> TRUE, hybrid |-> hybrid, points |-> {}]]
                  ELSE backend
    /\ call' = [call EXCEPT ![c] =
         IF out = "ok" \/ AbsorbedOnCreate(out)
         THEN Returned(r, log, <<>>, {})
         ELSE Thrown(r, log, message, out)]
    /\ UNCHANGED <<initialized, tok>>

createCollection(c) ==
  /\ InBody(c, "createCollection")
  /\ Create(c, FALSE, "Failed to create collection")

createHybridCollection(c) ==
  /\ InBody(c, "createHybridCollection")
  /\ Create(c, TRUE, "Failed to create hybrid collection")

dropCollection(c) ==
  /\ InBody(c, "dropCollection")
  /\ LET r == call[c] IN
     \E out \in DeleteCollectionOutcomes(backend[r.coll]) :
       LET log == Append(r.log, Request("deleteCollection", out)) IN
       /\ backend' = IF out = "ok"
                     THEN [backend EXCEPT ![r.coll] = NoCollection]
                     ELSE backend
       /\ call' = [call EXCEPT ![c] =
            IF out = "ok" \/ AbsorbedOnDrop(out)
            THEN Returned(r, log, <<>>, {})
            ELSE Thrown(r, log, "Failed to drop collection", out)]
       /\ UNCHANGED <<initialized, tok>>

\* the names client.getCollections() lists
CollectionNames == {n \in CollNames : backend[n].exists}

\* the body of hasCollection, listCollections and checkCollectionLimit:
\* one getCollections request, and a value computed from its answer
Listing(c, value, message) ==
  LET r == call[c] IN
  \E out \in GetCollectionsOutcomes :
    LET log == Append(r.log, Request("getCollections", out)) IN
    /\ call' = [call EXCEPT ![c] =
         IF out = "ok" THEN Returned(r, log, <<>>, value)
         ELSE Thrown(r, log, message, out)]
    /\ UNCHANGED <<initialized, backend, tok>>

hasCollection(c) ==
  /\ InBody(c, "hasCollection")
  /\ Listing(c, {call[c].coll \in CollectionNames},
             "Failed to check collection existence")

listCollections(c) ==
  /\ InBody(c, "listCollections")
  /\ Listing(c, CollectionNames, "Failed to list collections")

checkCollectionLimit(c) ==
  /\ InBody(c, "checkCollectionLimit")
  /\ Listing(c, {TRUE}, "Failed to check collection limit")

\* the body of insert and insertHybrid: nothing for an empty batch, else
\* one upsert of the points built from the documents
Upsert(c, withSparse, message) ==
  LET r == call[c] IN
  IF Len(r.docs) = 0
  THEN /\ call' = [call EXCEPT ![c] = Returned(r, r.log, <<>>, {})]
       /\ UNCHANGED <<initialized, backend, tok>>
  ELSE \E out \in PointsOutcomes(backend[r.coll], withSparse) :
         LET log == Append(r.log, Request("upsert", out)) IN
         /\ backend' = IF out = "ok"
                       THEN [backend EXCEPT ![r.coll].points =
                               Upserted(@, PointsOf(r.docs, withSparse))]
                       ELSE backend
         /\ call' = [call EXCEPT ![c] =
              IF out = "ok" THEN Returned(r, log, <<>>, {})
              ELSE Thrown(r, log, message, out)]
         /\ UNCHANGED <<initialized, tok>>

insert(c) ==
  /\ InBody(c, "insert")
  /\ Upsert(c, FALSE, "Failed to insert documents")

insertHybrid(c) ==
  /\ InBody(c, "insertHybrid")
  /\ Upsert(c, TRUE, "Failed to insert hybrid documents")

\* the ids sent to the backend as they came from the caller
PointIdsUnmapped(ids) == {ids[i] : i \in DOMAIN ids}

\* `ids.map(id => this.stringToUUID(id))`: the backend keys of the ids
PointIds(ids) == {stringToUUID(ids[i]) : i \in DOMAIN ids}

\* delete: nothing for an empty list, else one delete of the mapped ids
delete(c) ==
  /\ InBody(c, "delete")
  /\ LET r == call[c] IN
     IF Len(r.docs) = 0
     THEN /\ call' = [call EXCEPT ![c] = Returned(r, r.log, <<>>, {})]
          /\ UNCHANGED <<initialized, backend, tok>>
     ELSE \E out \in PointsOutcomes(backend[r.coll], FALSE) :
            LET log == Append(r.log, Request("delete", out))
                pointIds == PointIds(r.docs)
            IN
            /\ backend' = IF out = "ok"
                          THEN [backend EXCEPT ![r.coll].points =
                                  {p \in @ : p.id \notin pointIds}]
                          ELSE backend
            /\ call' = [call EXCEPT ![c] =
                 IF out = "ok" THEN Returned(r, log, <<>>, {})
                 ELSE Thrown(r, log, "Failed to delete documents", out)]
            /\ UNCHANGED <<initialized, tok>>

\* search: one dense search, each hit mapped to a result with the
\* backend's own score
search(c) ==
  /\ InBody(c, "search")
  /\ LET r == call[c] IN
     \E out \in PointsOutcomes(backend[r.coll], FALSE) :
       LET log == Append(r.log, Request("search", out)) IN
       /\ IF out = "ok"
          THEN \E hits \in Hits(backend[r.coll].points, EffectiveLimit(r.limit)) :
                 call' = [call EXCEPT ![c] =
                   [Returned(r, log,
                      [i \in DOMAIN hits |-> ToResult(hits[i], hits[i].score)], {})
                    EXCEPT !.dense = hits]]
          ELSE call' = [call EXCEPT ![c] = Thrown(r, log, "Failed to search", out)]
       /\ UNCHANGED <<initialized, backend, tok>>

\* query: one scroll, each point returned as {id: point.id, ...payload}
query(c) ==
  /\ InBody(c, "query")
  /\ LET r == call[c] IN
     \E out \in PointsOutcomes(backend[r.coll], FALSE) :
       LET log == Append(r.log, Request("scroll", out)) IN
       /\ IF out = "ok"
          THEN \E hits \in Hits(backend[r.coll].points,
                                OrDefault(r.limit, DefaultScrollLimit)) :
                 call' = [call EXCEPT ![c] =
                   Returned(r, log,
                     [i \in DOMAIN hits |->
                        [id |-> hits[i].id, originalId |-> hits[i].originalId]], {})]
          ELSE call' = [call EXCEPT ![c] = Thrown(r, log, "Failed to query", out)]
       /\ UNCHANGED <<initialized, backend, tok>>

\* hybridSearch up to the await of the sparse search: the dense request is
\* required; the dense search runs; without a sparse text the dense list
\* alone is fused and returned
hybridSearch(c) ==
  /\ InBody(c, "hybridSearch")
  /\ LET r == call[c]
         limit == EffectiveLimit(r.limit)
         message == "Failed to perform hybrid search"
     IN
     IF ~HasDense(r.reqs)
     THEN call' = [call EXCEPT ![c] =
            Thrown(r, r.log, message,
                   "Dense search request (vector) is required for hybrid search")]
     ELSE \E out \in PointsOutcomes(backend[r.coll], FALSE) :
            LET log == Append(r.log, Request("search", out)) IN
            IF out # "ok"
            THEN call' = [call EXCEPT ![c] = Thrown(r, log, message, out)]
            ELSE \E hits \in Hits(backend[r.coll].points, limit * FusionOverfetch) :
                   call' = [call EXCEPT ![c] =
                     IF SparseText(r.reqs) # ""
                     THEN [r EXCEPT !.pc = "sparse", !.log = log, !.dense = hits]
                     ELSE [Returned(r, log,
                             Fuse(AddDense(hits), limit, EffectiveK(r.k)), {})
                           EXCEPT !.dense = hits]]
  /\ UNCHANGED <<initialized, backend, tok>>

\* a sparse search in a try of its own: its failure is dropped and the dense
\* list alone is fused and returned
SparseLegSkipped(r, log, out) ==
  Returned(r, log,
           Fuse(AddDense(r.dense), EffectiveLimit(r.limit), EffectiveK(r.k)), {})

\* a failed sparse search lands in the catch of hybridSearch, which throws
SparseLegFailed(r, log, out) ==
  Thrown(r, log, "Failed to perform hybrid search", out)

\* hybridSearch after the sparse search: its hits are merged into
\* allResults, the entries scored, sorted, cut to the limit and returned
hybridSearchSparse(c) ==
  /\ call[c].pc = "sparse"
  /\ LET r == call[c]
         limit == EffectiveLimit(r.limit)
     IN
     \E out \in PointsOutcomes(backend[r.coll], TRUE) :
       LET log == Append(r.log, Request("search sparse", out)) IN
       IF out # "ok"
       THEN call' = [call EXCEPT ![c] = SparseLegFailed(r, log, out)]
       ELSE \E hits \in Hits({p \in backend[r.coll].points : p.sparse},
                             limit * FusionOverfetch) :
              call' = [call EXCEPT ![c] =
                [Returned(r, log,
                   Fuse(AddSparse(AddDense(r.dense), hits, 1), limit,
                        EffectiveK(r.k)), {})
                 EXCEPT !.sparse = hits]]
  /\ UNCHANGED <<initialized, backend, tok>>

(* ------------------------------ tokenizer ----------------------------- *)
(* A text is a sequence of characters, a character a one-character string. *)

\* the characters of the texts: an upper-case letter, two lower-case
\* letters, a punctuation mark and a space
Chars == {"A", "a", "z", ",", " "}

\* the texts handed to the tokenizer
Texts == UNION {[1..n -> Chars] : n \in 0..MaxTextLen}

\* String.prototype.charCodeAt: the UTF-16 code of a character
charCodeAt(ch) ==
  CASE ch = "A" -> 65
    [] ch = "a" -> 97
    [] ch = "z" -> 122
    [] ch = "," -> 44
    [] ch = " " -> 32

\* a text left in the case it came in
toLowerCaseSkipped(text) == text

\* String.prototype.toLowerCase
toLowerCase(text) ==
  [i \in DOMAIN text |-> IF text[i] = "A" THEN "a" ELSE text[i]]

\* the class \w of a regular expression: letters, digits and underscore
IsWordChar(ch) == ch \in {"A", "a", "z"}

\* the class \s of a regular expression
IsSpaceChar(ch) == ch = " "

\* `.replace(/[^\w\s]/g, ' ')`
ReplaceNonWord(text) ==
  [i \in DOMAIN text |->
     IF ~IsWordChar(text[i]) /\ ~IsSpaceChar(text[i]) THEN " " ELSE text[i]]

\* `.split(/\s+/)` from position i on: parts holds the pieces closed so
\* far, piece the one being read. A run of whitespace closes the piece
\* before it, an empty one at the start of the text included, and the piece
\* after the last run is closed by the end of the text.
RECURSIVE SplitFrom(_, _, _, _)
SplitFrom(text, i, parts, piece) ==
  IF i > Len(text) THEN Append(parts, piece)
  ELSE IF IsSpaceChar(text[i])
       THEN IF i > 1 /\ IsSpaceChar(text[i - 1])
            THEN SplitFrom(text, i + 1, parts, piece)
            ELSE SplitFrom(text, i + 1, Append(parts, piece), <<>>)
       ELSE SplitFrom(text, i + 1, parts, Append(piece, text[i]))

Split(text) == SplitFrom(text, 1, <<>>, <<>>)

\* `.filter((token) => token.length > 0)`
RECURSIVE NonEmptyFrom(_, _)
NonEmptyFrom(parts, i) ==
  IF i > Len(parts) THEN <<>>
  ELSE IF Len(parts[i]) > 0
       THEN <<parts[i]>> \o NonEmptyFrom(parts, i + 1)
       ELSE NonEmptyFrom(parts, i + 1)

\* tokenize: lower case, punctuation to spaces, split, empty tokens dropped
tokenize(text) ==
  NonEmptyFrom(Split(ReplaceNonWord(toLowerCase(text))), 1)

\* A 32-bit integer in two's complement is the pair <<high, low>> of its
\* 16-bit halves.
Half == 2 ^ HalfBits

Int32(n) == <<n \div Half, n % Half>>

\* addition of 32-bit integers, the carry out of the high half dropped
Add32(x, y) ==
  <<(x[1] + y[1] + ((x[2] + y[2]) \div Half)) % Half, (x[2] + y[2]) % Half>>

\* the negative of a 32-bit integer
Neg32(x) == Add32(<<Half - 1 - x[1], Half - 1 - x[2]>>, Int32(1))

\* `hash << 5`: the bits shifted out of the high half are lost
ShiftLeft(x) ==
  <<(x[1] * (2 ^ ShiftBits) + (x[2] \div (2 ^ (HalfBits - ShiftBits)))) % Half,
    (x[2] * (2 ^ ShiftBits)) % Half>>

\* `hash = (hash << 5) - hash + char; hash = hash & hash`: the sum is exact
\* in a double and `&` keeps its low 32 bits, which is the sum of 32-bit
\* integers
HashStep(hash, char) ==
  Add32(Add32(ShiftLeft(hash), Neg32(hash)), Int32(char))

\* the loop of hashToken from character i on
RECURSIVE HashFrom(_, _, _)
HashFrom(token, i, hash) ==
  IF i > Len(token) THEN hash
  ELSE HashFrom(token, i + 1, HashStep(hash, charCodeAt(token[i])))

\* the sign bit of a 32-bit integer
IsNegative(x) == x[1] >= Half \div 2

\* Math.abs of a 32-bit integer, as an unsigned 32-bit number (the absolute
\* value of the least integer is 2^31)
Abs32(x) == IF IsNegative(x) THEN Neg32(x) ELSE x

\* `n % 65536` for an unsigned 32-bit number n = high * 2^16 + low
ModBuckets(x) == ((x[1] % Buckets) * (Half % Buckets) + x[2]) % Buckets

\* hashToken: the bucket of a token
hashToken(token) == ModBuckets(Abs32(HashFrom(token, 1, Int32(0))))

\* tokenizeToIndices without its `seen` set: one entry per token
EveryBucket(text) ==
  LET tokens == tokenize(text)
  IN [i \in DOMAIN tokens |-> hashToken(tokens[i])]

\* the forEach of tokenizeToIndices from token i on: a bucket is pushed the
\* first time it is seen
RECURSIVE IndicesFrom(_, _, _, _)
IndicesFrom(tokens, i, indices, seen) ==
  IF i > Len(tokens) THEN indices
  ELSE LET index == hashToken(tokens[i]) IN
       IF index \notin seen
       THEN IndicesFrom(tokens, i + 1, Append(indices, index),
                        seen \cup {index})
       ELSE IndicesFrom(tokens, i + 1, indices, seen)

tokenizeToIndices(text) == IndicesFrom(tokenize(text), 1, <<>>, {})

\* Map.prototype.get and set on a map held as a function
MapGet(map, key) == IF key \in DOMAIN map THEN map[key] ELSE Undefined

MapPut(map, key, value) ==
  [b \in DOMAIN map \cup {key} |-> IF b = key THEN value ELSE map[b]]

\* the forEach of tokenizeToValues from token i on: the count of the
\* token's bucket goes up by one
RECURSIVE TokenMapFrom(_, _, _)
TokenMapFrom(tokens, i, tokenMap) ==
  IF i > Len(tokens) THEN tokenMap
  ELSE LET index == hashToken(tokens[i]) IN
       TokenMapFrom(tokens, i + 1,
         MapPut(tokenMap, index, OrDefault(MapGet(tokenMap, index), 0) + 1))

\* the empty Map
EmptyMap == [b \in {} |-> 0]

tokenizeToValues(text) ==
  LET tokens == tokenize(text)
      indices == tokenizeToIndices(text)
      tokenMap == TokenMapFrom(tokens, 1, EmptyMap)
  IN [i \in DOMAIN indices |-> OrDefault(MapGet(tokenMap, indices[i]), 0)]

\* tokenizeToVector: the sparse vector of a text
tokenizeToVector(text) ==
  [indices |-> tokenizeToIndices(text), values |-> tokenizeToValues(text)]

\* a text is handed to the tokenizer (the content of a document of
\* insertHybrid, the sparse query text of hybridSearch)
InitTok ==
  /\ initialized = FALSE
  /\ backend = [n \in CollNames |-> NoCollection]
  /\ call = [c \in Callers |-> Idle]
  /\ tok \in [pc : {"text"}, text : Texts, vector : {NoVector}]

\* the sparse vector of the text is built
BuildSparseVector ==
  /\ tok.pc = "text"
  /\ tok' = [tok EXCEPT !.pc = "vector", !.vector = tokenizeToVector(tok.text)]
  /\ UNCHANGED <<initialized, backend, call>>

(* --------------------------- specifications --------------------------- *)

\* what caller c may do
Step(c) ==
  \/ Invoke(c)
  \/ initialize(c)
  \/ createCollection(c)
  \/ createHybridCollection(c)
  \/ dropCollection(c)
  \/ hasCollection(c)
  \/ listCollections(c)
  \/ insert(c)
  \/ insertHybrid(c)
  \/ search(c)
  \/ hybridSearch(c)
  \/ hybridSearchSparse(c)
  \/ delete(c)
  \/ query(c)
  \/ checkCollectionLimit(c)
  \/ Return(c)

\* one caller: every operation is awaited before the next is called
Next == \E c \in SeqCallers : Step(c)

Spec == Init /\ [][Next]_vars

\* the documents and request lists of the concurrent callers
ConcDocSeqs == {<<>>, <<"a">>}
ConcRequestLists == {<<SparseReq>>, <<DenseReq>>, <<DenseReq, SparseReq>>}

\* the arguments of the concurrent callers: every operation, on one
\* document id and with the default limit and fusion constant
ConcArgs(op) ==
  [coll : IF op \in {"listCollections", "checkCollectionLimit"}
          THEN {""} ELSE CollNames,
   docs : IF op \in {"insert", "insertHybrid", "delete"}
          THEN ConcDocSeqs ELSE {<<>>},
   reqs : IF op = "hybridSearch" THEN ConcRequestLists ELSE {<<>>},
   limit : {Undefined},
   k : {Undefined}]

\* a caller calls a public operation while the operations of other callers
\* are in progress: as Invoke, on the arguments of ConcArgs
InvokeConc(c) ==
  /\ call[c].pc = "idle"
  /\ \E op \in Ops : \E a \in ConcArgs(op) :
       call' = [call EXCEPT ![c] =
         [Idle EXCEPT !.op = op, !.coll = a.coll, !.docs = a.docs,
                      !.reqs = a.reqs, !.limit = a.limit, !.k = a.k,
                      !.wasInit = initialized,
                      !.pc = IF NeedsProbe(initialized) THEN "probe" ELSE "body",
                      !.log = IF NeedsProbe(initialized)
                              THEN <<Request("probe", "pending")>> ELSE <<>>]]
  /\ UNCHANGED <<initialized, backend, tok>>

\* what caller c may do among concurrent callers
StepConc(c) ==
  \/ InvokeConc(c)
  \/ initialize(c)
  \/ createCollection(c)
  \/ createHybridCollection(c)
  \/ dropCollection(c)
  \/ hasCollection(c)
  \/ listCollections(c)
  \/ insert(c)
  \/ insertHybrid(c)
  \/ search(c)
  \/ hybridSearch(c)
  \/ hybridSearchSparse(c)
  \/ delete(c)
  \/ query(c)
  \/ checkCollectionLimit(c)
  \/ Return(c)

\* several callers on one adapter: their operations interleave at every
\* await
NextConc == \E c \in Callers : StepConc(c)

SpecConc == Init /\ [][NextConc]_vars

\* the tokenizer applied to every text
NextTok == BuildSparseVector

SpecTok == InitTok /\ [][NextTok]_vars

(* ------------------------------- claims ------------------------------- *)

\* a finished hybridSearch of caller c
HybridDone(c) == call[c].pc = "done" /\ call[c].op = "hybridSearch"

\* the request list holds no request with anns_field "vector"
NoDenseRequest(reqs) == \A i \in DOMAIN reqs : reqs[i].anns_field # "vector"

\* the log holds a search request
SearchIssued(log) ==
  \E i \in DOMAIN log : log[i].kind \in {"search", "search sparse"}

\* the operation failed with the dense-required error
DenseRequiredError(r) ==
  /\ r.status = "Failed to perform hybrid search"
  /\ r.cause = "Dense search request (vector) is required for hybrid search"

\* the operation failed in initialize
InitializationError(r) == r.status = "Failed to initialize Qdrant client"

\* C1 as stated: a hybridSearch without a dense request fails with the
\* dense-required error and issues no search request, whatever the backend
\* does.
C1_DenseRequiredWhateverBackend ==
  \A c \in Callers :
    (call[c].op = "hybridSearch" /\ NoDenseRequest(call[c].reqs)) =>
      /\ ~SearchIssued(call[c].log)
      /\ call[c].pc = "done" => DenseRequiredError(call[c])

\* C1 amended: a hybridSearch without a dense request issues no search
\* request; it fails with the dense-required error when its initialization
\* succeeds (the flag was set, or its probe succeeded) and with the
\* initialization error when its probe fails.
C1_DenseRequiredOnceInitialized ==
  \A c \in Callers :
    (call[c].op = "hybridSearch" /\ NoDenseRequest(call[c].reqs)) =>
      /\ ~SearchIssued(call[c].log)
      /\ call[c].pc = "done" =>
           IF \E i \in DOMAIN call[c].log :
                call[c].log[i].kind = "probe" /\ call[c].log[i].outcome # "ok"
           THEN InitializationError(call[c])
           ELSE DenseRequiredError(call[c])

\* C1 witness: a sparse-only hybridSearch was rejected with the
\* dense-required error while the collection held points to search
C1_SparseOnlyRejected ==
  \E c \in Callers :
    /\ HybridDone(c)
    /\ call[c].reqs = <<SparseReq>>
    /\ DenseRequiredError(call[c])
    /\ backend[call[c].coll].points # {}

\* a hybridSearch of caller c that returned its list
HybridReturned(c) == HybridDone(c) /\ call[c].status = "ok"

\* the 1-based position of the point with this id in a list the backend
\* returned, 0 when the point is not in it
RankIn(list, id) ==
  IF \E i \in DOMAIN list : list[i].id = id
  THEN CHOOSE i \in DOMAIN list : list[i].id = id
  ELSE 0

\* 1 / (k + rank) for a point in the list, nothing for one that is not
Share(k, rank) == IF rank = 0 THEN Frac(0, 1) ELSE Frac(1, k + rank)

\* the fusion constant the caller supplied, 60 when it supplied none
SuppliedK(k) == IF k = Undefined THEN 60 ELSE k

\* the limit the caller supplied, 10 when it supplied none
SuppliedLimit(limit) == IF limit = Undefined THEN 10 ELSE limit

\* the backend's own score of a point in a list (its similarity)
NativeIn(list, id) == list[RankIn(list, id)].score

\* C2 as stated: the score of every hybridSearch result is the sum of
\* 1/(k + rank) over the lists (dense, sparse) that hold its point, with
\* rank the position in the list as the backend returned it and k the
\* supplied constant (60 when none is supplied); the backend's similarity
\* is never the reported score.
C2_ScoreIsRrfSum ==
  \A c \in Callers :
    HybridReturned(c) =>
      \A i \in DOMAIN call[c].ret :
        LET r == call[c]
            id == r.ret[i].point
            k == SuppliedK(r.k)
        IN /\ FracEq(r.ret[i].score,
                     FracAdd(Share(k, RankIn(r.dense, id)),
                             Share(k, RankIn(r.sparse, id))))
           /\ RankIn(r.dense, id) # 0 =>
                ~FracEq(r.ret[i].score, NativeIn(r.dense, id))
           /\ RankIn(r.sparse, id) # 0 =>
                ~FracEq(r.ret[i].score, NativeIn(r.sparse, id))

\* C3 as stated: for every limit K the list hybridSearch returns is in
\* non-increasing order of score, has at most K entries (10 when no limit
\* is supplied) and holds every point at most once.
C3_SortedBoundedDistinct ==
  \A c \in Callers :
    HybridReturned(c) =>
      LET ret == call[c].ret IN
      /\ \A i, j \in DOMAIN ret : i < j => ~FracLess(ret[i].score, ret[j].score)
      /\ Len(ret) <= SuppliedLimit(call[c].limit)
      /\ \A i, j \in DOMAIN ret : i # j => ret[i].point # ret[j].point

\* the position of a point in the returned list, 0 when it is not in it
PlaceIn(ret, id) ==
  IF \E i \in DOMAIN ret : ret[i].point = id
  THEN CHOOSE i \in DOMAIN ret : ret[i].point = id
  ELSE 0

\* point a is in both lists, point b in exactly one, at a rank that is one
\* of a's ranks
InBothAgainstInOne(dense, sparse, a, b) ==
  /\ RankIn(dense, a) # 0 /\ RankIn(sparse, a) # 0
  /\ (RankIn(dense, b) = 0) # (RankIn(sparse, b) = 0)
  /\ RankIn(dense, b) + RankIn(sparse, b)
       \in {RankIn(dense, a), RankIn(sparse, a)}

\* the candidate of a point id among the merged lists, scored as the code
\* scores it
ScoreOf(r, id) ==
  LET all == AddSparse(AddDense(r.dense), r.sparse, 1)
  IN RrfScore(EffectiveK(r.k), all[EntryOf(all, id)])

\* C4: for a fusion constant k > 0, a candidate in both lists scores
\* strictly higher than a candidate in one list only at a rank equal to one
\* of the first one's ranks, and is placed before it when both are returned.
C4_BothListsBeatOne ==
  \A c \in Callers :
    HybridReturned(c) =>
      LET r == call[c]
          ids == {r.dense[i].id : i \in DOMAIN r.dense}
                   \cup {r.sparse[i].id : i \in DOMAIN r.sparse}
      IN \A a, b \in ids :
           (EffectiveK(r.k) > 0 /\ InBothAgainstInOne(r.dense, r.sparse, a, b)) =>
             /\ FracLess(ScoreOf(r, b), ScoreOf(r, a))
             /\ (PlaceIn(r.ret, a) # 0 /\ PlaceIn(r.ret, b) # 0) =>
                  /\ PlaceIn(r.ret, a) < PlaceIn(r.ret, b)
                  /\ FracLess(r.ret[PlaceIn(r.ret, b)].score,
                              r.ret[PlaceIn(r.ret, a)].score)

\* C4 witness: a returned list holds a point of both lists and, after it,
\* a point that only the sparse list holds, at the first one's dense rank
C4_BothAndOneReturned ==
  \E c \in Callers :
    /\ HybridReturned(c)
    /\ \E i, j \in DOMAIN call[c].ret :
         /\ i < j
         /\ InBothAgainstInOne(call[c].dense, call[c].sparse,
                               call[c].ret[i].point, call[c].ret[j].point)
         /\ RankIn(call[c].dense, call[c].ret[j].point) = 0

\* a search or hybridSearch of caller c that returned its list
SearchReturned(c) ==
  /\ call[c].pc = "done"
  /\ call[c].op \in {"search", "hybridSearch"}
  /\ call[c].status = "ok"

\* C5 as stated: every result that search or hybridSearch returns for the
\* point stored by insert or insertHybrid of a document with caller id X
\* carries the document id X, never the backend's key of the point, for
\* every id string X.
C5_ResultCarriesCallerId ==
  \A c \in Callers :
    SearchReturned(c) =>
      \A i \in DOMAIN call[c].ret : \A x \in IDs :
        call[c].ret[i].point = stringToUUID(x) =>
          /\ call[c].ret[i].id = x
          /\ call[c].ret[i].id # call[c].ret[i].point

\* the answer to the last request of a log
LastOutcome(log) == log[Len(log)].outcome

\* caller c finishes the body of operation op in this step
Finishes(c, ops) ==
  /\ call[c].pc = "body"
  /\ call[c].op \in ops
  /\ call'[c].pc = "done"

\* C6: createCollection and createHybridCollection on a name that exists:
\* the backend's "already exists" answer is swallowed, the operation returns
\* without raising, and the existing collection (every collection) is as it
\* was.
C6_CreateIdempotent ==
  [][\A c \in Callers :
       (/\ Finishes(c, {"createCollection", "createHybridCollection"})
        /\ backend[call[c].coll].exists) =>
         /\ backend' = backend
         /\ LastOutcome(call'[c].log) = "already exists" =>
              call'[c].status = "ok"]_vars

\* C6 witness: a create on an existing collection that holds points was
\* answered "already exists" and returned
C6_CreateOnExistingReturned ==
  \E c \in Callers :
    /\ call[c].pc = "done"
    /\ call[c].op \in {"createCollection", "createHybridCollection"}
    /\ LastOutcome(call[c].log) = "already exists"
    /\ call[c].status = "ok"
    /\ backend[call[c].coll].points # {}

\* C7: dropCollection on a name that does not exist: the backend's
\* "not found" answer is swallowed, the operation returns without raising,
\* and the set of collections is as it was.
C7_DropIdempotent ==
  [][\A c \in Callers :
       (/\ Finishes(c, {"dropCollection"})
        /\ ~backend[call[c].coll].exists) =>
         /\ backend' = backend
         /\ LastOutcome(call'[c].log) = "not found" =>
              call'[c].status = "ok"]_vars

\* C7 witness: a drop of a collection that does not exist was answered
\* "not found" and returned
C7_DropOfMissingReturned ==
  \E c \in Callers :
    /\ call[c].pc = "done"
    /\ call[c].op = "dropCollection"
    /\ LastOutcome(call[c].log) = "not found"
    /\ call[c].status = "ok"
    /\ ~backend[call[c].coll].exists

\* C8: the flag only ever goes from uninitialized to initialized, and no
\* probe is issued by an operation once the flag is set (every probe in a
\* log was issued while the flag was still unset).
C8_InitializedOnce ==
  [][/\ initialized => initialized'
     /\ \A c \in Callers : \A i \in DOMAIN call'[c].log :
          call'[c].log[i].kind = "probe" => ~call'[c].log[i].init]_vars

\* C8 witness: an operation called with the flag set has finished, and it
\* sent a request but no probe
C8_LaterCallWithoutProbe ==
  \E c \in Callers :
    /\ initialized
    /\ call[c].pc = "done"
    /\ call[c].wasInit
    /\ call[c].log # <<>>
    /\ \A i \in DOMAIN call[c].log : call[c].log[i].kind # "probe"

\* C9: a probe that fails on an uninitialized adapter fails the operation
\* that sent it with the initialization error, after that one probe and no
\* other request, and leaves the flag unset; an operation called while the
\* flag is unset sends the probe again, and goes on to its body with the
\* flag set when that probe succeeds.
C9_FailedProbeIsFatalOnce ==
  [][\A c \in Callers :
       /\ (call[c].pc = "probe" /\ call'[c].pc = "done") =>
            /\ InitializationError(call'[c])
            /\ Len(call'[c].log) = 1
            /\ call'[c].log[1].kind = "probe"
            /\ call'[c].log[1].outcome = "error"
            /\ ~initialized => ~initialized'
       /\ (call[c].pc = "idle" /\ call'[c].pc # "idle" /\ ~initialized) =>
            /\ call'[c].pc = "probe"
            /\ Len(call'[c].log) = 1
            /\ call'[c].log[1].kind = "probe"
       /\ (call[c].pc = "probe" /\ call'[c].pc # "probe"
             /\ call'[c].log[1].outcome = "ok") =>
            /\ call'[c].pc = "body"
            /\ call'[c].status = "none"
            /\ initialized']_vars

\* C9 witness: an operation has failed with the initialization error and
\* the flag is unset
C9_ProbeFailed ==
  \E c \in Callers :
    /\ call[c].pc = "done"
    /\ InitializationError(call[c])
    /\ ~initialized

\* the failures the code absorbs: "already exists" on a create, "not
\* found" on a drop
Absorbed(op, request) ==
  \/ /\ op \in {"createCollection", "createHybridCollection"}
     /\ request.kind = "createCollection"
     /\ request.outcome = "already exists"
  \/ /\ op = "dropCollection"
     /\ request.kind = "deleteCollection"
     /\ request.outcome = "not found"

\* the request failed
Failed(request) == request.outcome \notin {"ok", "pending"}

\* C10: after a backend failure that is not absorbed the operation that
\* issued the request has failed with an error and returned nothing, and
\* the failed request is the last it issued (no retry, no further request).
C10_FailuresPropagate ==
  \A c \in Callers : \A i \in DOMAIN call[c].log :
    (Failed(call[c].log[i]) /\ ~Absorbed(call[c].op, call[c].log[i])) =>
      /\ call[c].pc = "done"
      /\ call[c].status \notin {"ok", "none"}
      /\ call[c].ret = <<>>
      /\ call[c].value = {}
      /\ i = Len(call[c].log)

\* C10 witness: a hybridSearch whose dense search succeeded and whose
\* sparse search failed has failed as a whole
C10_SparseLegFailure ==
  \E c \in Callers :
    /\ HybridDone(c)
    /\ Len(call[c].log) >= 2
    /\ call[c].log[Len(call[c].log) - 1].outcome = "ok"
    /\ call[c].log[Len(call[c].log) - 1].kind = "search"
    /\ Failed(call[c].log[Len(call[c].log)])
    /\ call[c].dense # <<>>
    /\ call[c].status = "Failed to perform hybrid search"

\* the points of a collection stored for the caller id x
StoredFor(coll, x) == {p \in backend[coll].points : p.originalId = x}

\* the caller ids of a batch
BatchIds(docs) == {docs[i] : i \in DOMAIN docs}

\* caller c finishes an operation of ops that the backend accepted
Accepted(c, ops) ==
  /\ Finishes(c, ops)
  /\ call'[c].status = "ok"
  /\ call[c].docs # <<>>

\* C11: a collection holds at most one point per caller id, under the key
\* derived from that id; an accepted insert or insertHybrid leaves, for
\* every id of its batch, exactly the point it wrote (the earlier point of
\* that id is overwritten) and no other point is touched; an accepted delete
\* removes exactly the points that were inserted with its ids.
C11_OnePointPerCallerId ==
  [][\A c \in Callers : \A n \in CollNames :
       LET before == backend[n].points
           after == backend'[n].points
           ids == BatchIds(call[c].docs)
       IN
       /\ \A p, q \in after :
            /\ p.id = stringToUUID(p.originalId)
            /\ p.originalId = q.originalId => p = q
       /\ (Accepted(c, {"insert", "insertHybrid"}) /\ n = call[c].coll) =>
            /\ \A x \in ids :
                 \E p \in after :
                   /\ {q \in after : q.originalId = x} = {p}
                   /\ p.sparse = (call[c].op = "insertHybrid")
            /\ {p \in after : p.originalId \notin ids}
                 = {p \in before : p.originalId \notin ids}
       /\ (Accepted(c, {"delete"}) /\ n = call[c].coll) =>
            after = {p \in before : p.originalId \notin ids}]_vars

\* C11 witness: an accepted delete of one id has left the collection
\* without a point of that id and with the point of another id
C11_DeletedWhatInsertWrote ==
  \E c \in Callers :
    /\ call[c].pc = "done"
    /\ call[c].op = "delete"
    /\ call[c].status = "ok"
    /\ call[c].docs = <<"a">>
    /\ StoredFor(call[c].coll, "a") = {}
    /\ StoredFor(call[c].coll, "b") # {}

\* the probe of caller c's operation succeeded
OwnProbeSucceeded(r) ==
  /\ r.log # <<>>
  /\ r.log[1].kind = "probe"
  /\ r.log[1].outcome = "ok"

\* the backend keys of the points in a list
KeysOf(list) == {list[i].id : i \in DOMAIN list}

\* the backend keys a returned list refers to
ReturnedKeys(r) ==
  IF r.op = "query" THEN {r.ret[i].id : i \in DOMAIN r.ret}
  ELSE {r.ret[i].point : i \in DOMAIN r.ret}

\* the result of a finished operation is the one the operation has, run
\* alone, on the backend it met (b before its last request, b2 after it)
SequentialResult(r, lastPc, b, b2) ==
  LET ids == BatchIds(r.docs)
      keys == {p.id : p \in b[r.coll].points}
      sparseKeys == {p.id : p \in {q \in b[r.coll].points : q.sparse}}
  IN
  /\ ~InitializationError(r)
  /\ r.status = "ok" =>
       CASE r.op = "hasCollection" -> r.value = {b[r.coll].exists}
         [] r.op = "listCollections" ->
              r.value = {n \in CollNames : b[n].exists}
         [] r.op = "checkCollectionLimit" -> r.value = {TRUE}
         [] r.op \in {"createCollection", "createHybridCollection"} ->
              b2[r.coll].exists
         [] r.op = "dropCollection" -> ~b2[r.coll].exists
         [] r.op \in {"insert", "insertHybrid"} ->
              \A x \in ids : \E p \in b2[r.coll].points : p.originalId = x
         [] r.op = "delete" ->
              \A x \in ids : \A p \in b2[r.coll].points : p.originalId # x
         [] r.op \in {"search", "query"} -> ReturnedKeys(r) \subseteq keys
         [] r.op = "hybridSearch" ->
              IF lastPc = "sparse"
              THEN ReturnedKeys(r) \subseteq (KeysOf(r.dense) \cup sparseKeys)
              ELSE ReturnedKeys(r) \subseteq keys

C15_NoRequestBeforeProbe ==
  \A c \in Callers : \A i \in DOMAIN call[c].log :
    call[c].log[i].kind # "probe" => call[c].log[i].init

\* C15 witness: an operation called on the uninitialized adapter sent its
\* probe and, after its success, a request, while another caller's probe is
\* still awaited
C15_RequestAfterOwnProbe ==
  \E c, d \in Callers :
    /\ OwnProbeSucceeded(call[c])
    /\ ~call[c].log[1].init
    /\ Len(call[c].log) >= 2
    /\ call[c].log[2].init
    /\ call[d].pc = "probe"

\* the hash bucket of every token of a text, in the order of the tokens
BucketsOf(text) ==
  LET tokens == tokenize(text)
  IN [i \in DOMAIN tokens |-> hashToken(tokens[i])]

\* the position of the first of the tokens' buckets that is bucket b
FirstOccurrence(buckets, b) ==
  CHOOSE i \in DOMAIN buckets :
    /\ buckets[i] = b
    /\ \A j \in 1..(i - 1) : buckets[j] # b

\* the sum of a sequence of numbers
RECURSIVE SumOf(_)
SumOf(values) ==
  IF values = <<>> THEN 0 ELSE Head(values) + SumOf(Tail(values))

\* C13: the sparse vector of every text is well formed: its indices are
\* pairwise distinct buckets of 0..65535, the buckets of the text's tokens
\* in the order of their first occurrence; values is as long as indices and
\* values[i] is the number of tokens in bucket indices[i], so every value
\* is at least 1 and the values add up to the number of tokens.
C13_SparseVectorWellFormed ==
  tok.pc = "vector" =>
    LET indices == tok.vector.indices
        values == tok.vector.values
        buckets == BucketsOf(tok.text)
    IN
    /\ \A i \in DOMAIN indices : indices[i] \in 0..65535
    /\ \A i, j \in DOMAIN indices : i # j => indices[i] # indices[j]
    /\ {indices[i] : i \in DOMAIN indices} = {buckets[i] : i \in DOMAIN buckets}
    /\ \A i, j \in DOMAIN indices :
         i < j => FirstOccurrence(buckets, indices[i])
                    < FirstOccurrence(buckets, indices[j])
    /\ Len(values) = Len(indices)
    /\ \A i \in DOMAIN indices :
         /\ values[i] = Cardinality({j \in DOMAIN buckets : buckets[j] = indices[i]})
         /\ values[i] >= 1
    /\ SumOf(values) = Len(buckets)

\* C13 witness: the vector of a text with a repeated token and another
\* token after it: two indices, the first with value 2
C13_RepeatedToken ==
  /\ tok.pc = "vector"
  /\ Len(tokenize(tok.text)) = 3
  /\ Len(tok.vector.indices) = 2
  /\ tok.vector.values = <<2, 1>>

\* a character in lower case, and a character that is neither a word
\* character nor whitespace made a space
Normalized(ch) ==
  CASE ch = "A" -> "a"
    [] ch = "," -> " "
    [] OTHER -> ch

\* a text lower-cased, its punctuation replaced by spaces
NormalizedText(text) == [i \in DOMAIN text |-> Normalized(text[i])]

\* C14: the tokenizer gives every text the indices and values it gives
\* that text lower-cased with every character that is neither a word
\* character nor whitespace replaced by a space; the two have the same
\* bucket set.
C14_CaseAndPunctuationInsensitive ==
  tok.pc = "vector" =>
    LET plain == tokenizeToVector(NormalizedText(tok.text))
    IN /\ tok.vector.indices = plain.indices
       /\ tok.vector.values = plain.values
       /\ {tok.vector.indices[i] : i \in DOMAIN tok.vector.indices}
            = {plain.indices[i] : i \in DOMAIN plain.indices}

\* C14 witness: the vector of a text with an upper-case letter and a
\* punctuation mark between two words
C14_UpperCaseAndPunctuation ==
  /\ tok.pc = "vector"
  /\ tok.text = <<"A", ",", "z">>
  /\ Len(tok.vector.indices) = 2
  /\ tok.vector = tokenizeToVector(<<"a", " ", "z">>)

====
